---------------------------- MODULE Spec2Model ----------------------------
(***************************************************************************)
(* A model of RAiDER's delay pipeline (src/delay.py): the ray sampler      *)
(* _compute_ray, the orchestrator _common_delay, the integrator            *)
(* _integrateLOS/int_fcn, the execution modes, and the drivers             *)
(* delay_from_grid, delay_from_files, _tropo_delay_with_values and         *)
(* tropo_delay, and of gdal_extents (src/tools/RAiDER/ioFcns.py).          *)
(*                                                                         *)
(* Numbers.  A numpy float is a record [t, v]: t = "fin" with the integer  *)
(* value v, t = "nan", or t = "inf" with the sign v.  Lengths, heights and *)
(* positions are integers of metres.  Geometry is taken along the line     *)
(* through the ground point: a position, a look vector and a direction are *)
(* one signed coordinate on that line, so the norm of a look vector is its *)
(* absolute value and a unit vector is +1 or -1.  A delay is kept in units *)
(* of 1e-6 m, so that the factor 1e-6 of int_fcn is the unit and the       *)
(* stored number is stepSize * nansum.                                     *)
(***************************************************************************)
EXTENDS Integers, Sequences, FiniteSets, TLC

VARIABLES
    \* _compute_ray called on its own (SpecRay)
    rL, rS, rV, rStep, rPc, rRay,
    \* one call of _common_delay (SpecDelay): its arguments, the transform
    \* or interpolation that fails, its position and its locals
    heights, los, stepSize, fault,
    cdPc, look_vecs, lengths, start_positions, scaled_look_vecs,
    positions_l, newPts, nBuilt, wet_pw, hydro_pw, delays,
    \* one map of a per-ray function over a list of rays in one execution
    \* mode (SpecExec)
    exMode, exItems, exPc, exParts, exAnswers,
    \* one call of delay_from_grid (SpecGrid): the shape of llas without
    \* its last axis, the look vector, and the shapes returned
    gShape, gLos, gPc, gHydro, gWet,
    \* one call of _tropo_delay_with_values or delay_from_files
    \* (SpecShapes): the shapes of its arrays, the look vector given, what
    \* it has done so far and how it ended
    sEntry, sLats, sLons, sHts, sLos, sPc, sDone,
    \* one call of tropo_delay (SpecTropo): its arguments and what it
    \* finds outside, its position, and what it has done so far
    tdArgs, tdPc, tdEffects,
    \* one call of gdal_extents (SpecExtents): the file found under the
    \* name given, the position of the call, and what it returned
    eFile, ePc, eOut

rayVars == <<rL, rS, rV, rStep, rPc, rRay>>
cdArgs == <<heights, los, stepSize, fault>>
cdLocals == <<look_vecs, lengths, start_positions, scaled_look_vecs,
              positions_l, newPts, nBuilt, wet_pw, hydro_pw, delays>>
cdVars == <<cdArgs, cdPc, cdLocals>>

exVars == <<exMode, exItems, exPc, exParts, exAnswers>>

gridVars == <<gShape, gLos, gPc, gHydro, gWet>>
shapeVars == <<sEntry, sLats, sLons, sHts, sLos, sPc, sDone>>

tropoVars == <<tdArgs, tdPc, tdEffects>>

extentVars == <<eFile, ePc, eOut>>

vars == <<rayVars, cdVars, exVars, gridVars, shapeVars, tropoVars,
          extentVars>>

\* what the actions of one specification leave alone
othersOfRay ==
    <<cdVars, exVars, gridVars, shapeVars, tropoVars, extentVars>>
othersOfDelay ==
    <<rayVars, exVars, gridVars, shapeVars, tropoVars, extentVars>>
othersOfExec ==
    <<rayVars, cdVars, gridVars, shapeVars, tropoVars, extentVars>>
othersOfGrid ==
    <<rayVars, cdVars, exVars, shapeVars, tropoVars, extentVars>>
othersOfShapes ==
    <<rayVars, cdVars, exVars, gridVars, tropoVars, extentVars>>
othersOfTropo ==
    <<rayVars, cdVars, exVars, gridVars, shapeVars, extentVars>>
othersOfExtents ==
    <<rayVars, cdVars, exVars, gridVars, shapeVars, tropoVars>>

-----------------------------------------------------------------------------
(* Bounds of the model *)

\* largest absolute ray length given to _compute_ray on its own
MaxLen == 6
\* largest integration step size drawn
MaxStep == 3
\* largest number of ground points in one batch of _common_delay
MaxRays == 2
\* largest number of rays mapped in one execution mode
MaxItems == 3
\* the bag gets one more partition every PartitionEvery rays (100 in the
\* source, scaled to the batch sizes of the model)
PartitionEvery == 2
\* the most partitions the bag is given
MaxPartitions == 400
\* largest extent of one axis of an input array, and the most axes
MaxDim == 3
MaxAxes == 3
\* _ZREF, the top of the troposphere (const._ZMAX, line 34), scaled to the
\* heights of the model
ZREF == 3
\* the weather model's grid nodes lie at the heights 0..GridTop
GridTop == 3
\* distance of height 0 from the origin of the Earth-centred frame
EarthRadius == 10
\* largest number of columns, and of rows, of a raster given to gdal_extents
MaxSize == 2

-----------------------------------------------------------------------------
(* numpy floats *)

Num(n) == [t |-> "fin", v |-> n]
NaN == [t |-> "nan", v |-> 0]
Inf(s) == [t |-> "inf", v |-> s]

IsNaN(x) == x.t = "nan"
IsFinite(x) == x.t = "fin"

Sign(n) == IF n > 0 THEN 1 ELSE IF n < 0 THEN -1 ELSE 0
Abs(n) == IF n < 0 THEN -n ELSE n

\* x + y
FAdd(x, y) ==
    IF IsNaN(x) \/ IsNaN(y) THEN NaN
    ELSE IF x.t = "inf" /\ y.t = "inf" THEN (IF x.v = y.v THEN x ELSE NaN)
    ELSE IF x.t = "inf" THEN x
    ELSE IF y.t = "inf" THEN y
    ELSE Num(x.v + y.v)

\* x * y
FMul(x, y) ==
    IF IsNaN(x) \/ IsNaN(y) THEN NaN
    ELSE IF x.t = "inf" \/ y.t = "inf"
         THEN (IF x.v = 0 \/ y.v = 0 THEN NaN ELSE Inf(Sign(x.v) * Sign(y.v)))
    ELSE Num(x.v * y.v)

\* x - y
FSub(x, y) == FAdd(x, FMul(Num(-1), y))

\* x / y of numpy (a warning, never an exception), for the quotients the
\* pipeline forms: a look vector over its own length
FDiv(x, y) ==
    IF IsNaN(x) \/ IsNaN(y) THEN NaN
    ELSE IF x.t = "inf" THEN (IF y.t = "inf" THEN NaN
                              ELSE Inf(IF y.v < 0 THEN -x.v ELSE x.v))
    ELSE IF y.t = "inf" THEN Num(0)
    ELSE IF y.v = 0 THEN (IF x.v = 0 THEN NaN ELSE Inf(Sign(x.v)))
    ELSE Num(x.v \div y.v)

-----------------------------------------------------------------------------
(* The look-vector sentinel *)

\* the Zenith class: the look vector is either the sentinel or one vector
\* per ground point
Zenith == [tag |-> "Zenith", vecs |-> <<>>]
Explicit(vs) == [tag |-> "Explicit", vecs |-> vs]

-----------------------------------------------------------------------------
(* Each specification studies one operation; the variables of the others
   rest at these values *)

IdleRay ==
    /\ rL = NaN /\ rS = NaN /\ rV = NaN /\ rStep = 1
    /\ rPc = "idle" /\ rRay = <<>>

IdleDelay ==
    /\ heights = <<>> /\ los = Zenith /\ stepSize = 1
    /\ fault = [ray |-> 0, at |-> "none"]
    /\ cdPc = "idle"
    /\ look_vecs = <<>> /\ lengths = <<>> /\ start_positions = <<>>
    /\ scaled_look_vecs = <<>> /\ positions_l = <<>> /\ newPts = <<>>
    /\ nBuilt = [wet |-> 0, hydro |-> 0]
    /\ wet_pw = <<>> /\ hydro_pw = <<>> /\ delays = <<>>

IdleExec ==
    /\ exMode = "idle" /\ exItems = <<>> /\ exPc = "idle"
    /\ exParts = <<>> /\ exAnswers = <<>>

IdleGrid ==
    /\ gShape = <<>> /\ gLos = "Zenith" /\ gPc = "idle"
    /\ gHydro = <<>> /\ gWet = <<>>

IdleShapes ==
    /\ sEntry = "idle" /\ sLats = <<>> /\ sLons = <<>> /\ sHts = <<>>
    /\ sLos = [given |-> FALSE, lead |-> <<>>]
    /\ sPc = "idle" /\ sDone = <<>>

IdleTropo ==
    /\ tdArgs = [name |-> "", type |-> "", files |-> FALSE, lat |-> FALSE,
                 los |-> FALSE, exists |-> FALSE, fetchFails |-> FALSE,
                 download_only |-> FALSE, height_type |-> "",
                 demShape |-> <<>>, outformat |-> ""]
    /\ tdPc = "idle" /\ tdEffects = <<>>

IdleExtents ==
    /\ eFile = [vrt |-> FALSE, opens |-> FALSE, hasProj |-> FALSE,
                hasGt |-> FALSE, gt |-> <<>>, xSize |-> 0, ySize |-> 0]
    /\ ePc = "idle" /\ eOut = <<>>

-----------------------------------------------------------------------------
(* The ray sampler *)

\* a mutant of arange: the endpoint is sampled too
arange_closed(L, step) ==
    IF ~IsFinite(L) THEN [err |-> "ValueError", val |-> <<>>]
    ELSE LET n == (L.v \div step) + 1
         IN  [err |-> "none",
              val |-> IF n <= 0 THEN <<>>
                      ELSE [k \in 1..n |-> Num((k - 1) * step)]]

\* np.arange(0, L, stepSize): ceil(L / stepSize) values 0, stepSize, ...;
\* none when that count is not positive; ValueError when the count cannot
\* be computed (L is NaN) or overflows (L is infinite)
arange(L, step) ==
    IF ~IsFinite(L) THEN [err |-> "ValueError", val |-> <<>>]
    ELSE LET n == (L.v + step - 1) \div step
         IN  [err |-> "none",
              val |-> IF n <= 0 THEN <<>>
                      ELSE [k \in 1..n |-> Num((k - 1) * step)]]

\* a mutant of _compute_ray: the ValueError of np.arange is not caught
_compute_ray_nocatch(L, S, V, step) ==
    LET a == arange(L, step)
    IN  [raised |-> a.err,
         ray |-> [k \in 1..Len(a.val) |-> FAdd(S, FMul(a.val[k], V))]]

\* _compute_ray(L, S, V, stepSize): the positions S + thisspace * V
_compute_ray(L, S, V, step) ==
    LET a == arange(L, step)
        thisspace == IF a.err = "ValueError" THEN <<>> ELSE a.val
    IN  [raised |-> "none",
         ray |-> [k \in 1..Len(thisspace) |-> FAdd(S, FMul(thisspace[k], V))]]

-----------------------------------------------------------------------------
(* The orchestrator's helpers *)

\* np.linalg.norm of one look vector
norm(v) ==
    IF IsNaN(v) THEN NaN
    ELSE IF v.t = "inf" THEN Inf(1)
    ELSE Num(Abs(v.v))

\* a mutant of _get_lengths: non-finite norms are left as they are
_get_lengths_raw(vecs) == [i \in 1..Len(vecs) |-> norm(vecs[i])]

\* _get_lengths(look_vecs) for an array of look vectors: the norms, and 0
\* where the norm is not finite
_get_lengths(vecs) ==
    [i \in 1..Len(vecs) |->
        IF IsFinite(norm(vecs[i])) THEN norm(vecs[i]) ELSE Num(0)]

\* _getZenithLookVecs: the unit vector pointing up, times (zref - height)
_getZenithLookVecs(hts, zref) ==
    [i \in 1..Len(hts) |-> FMul(Num(1), FSub(Num(zref), hts[i]))]

\* util.lla2ecef: the Earth-centred position of a ground point
lla2ecef(h) == FAdd(Num(EarthRadius), h)

\* _get_rays: _compute_ray on each (length, start, direction), in order
_get_rays(ls, step, starts, dirs) ==
    [i \in 1..Len(ls) |-> _compute_ray(ls[i], starts[i], dirs[i], step)]

\* _transform(ray, ecef, newProj): each position of the ray in the weather
\* model's frame, whose third coordinate is the height
_transform(ray) ==
    [k \in 1..Len(ray) |-> FSub(ray[k], Num(EarthRadius))]

\* the weather model's refractivity at the grid node of height z
WetRefractivity(z) == z + 1
HydroRefractivity(z) == 20 - (2 * z)

InGrid(p) == IsFinite(p) /\ p.v \in 0..GridTop

\* the Interpolator built by getIntFcn, called on a ray: the field at each
\* point inside the grid, NaN at each point outside it
ifWet(ray) ==
    [k \in 1..Len(ray) |->
        IF InGrid(ray[k]) THEN Num(WetRefractivity(ray[k].v)) ELSE NaN]
ifHydro(ray) ==
    [k \in 1..Len(ray) |->
        IF InGrid(ray[k]) THEN Num(HydroRefractivity(ray[k].v)) ELSE NaN]

\* db.from_sequence(seq, npartitions).map(f).compute() keeps the order of
\* seq; the partitions are taken apart in SpecExec
interpRayWet(ray) == ifWet(ray)
interpRayHydro(ray) == ifHydro(ray)

\* np.sum: a NaN sample makes the sum NaN
RECURSIVE npsum(_)
npsum(y) ==
    IF y = <<>> THEN Num(0) ELSE FAdd(y[1], npsum(Tail(y)))

\* np.nansum: the sum of the samples that are not NaN; 0 when there is none
RECURSIVE nansum(_)
nansum(y) ==
    IF y = <<>> THEN Num(0)
    ELSE IF IsNaN(y[1]) THEN nansum(Tail(y))
    ELSE FAdd(y[1], nansum(Tail(y)))

\* a mutant of int_fcn: np.sum in place of np.nansum
int_fcn_sum(y, dx) == FMul(Num(dx), npsum(y))

\* int_fcn(y, dx) = 1e-6*dx*np.nansum(y), in units of 1e-6
int_fcn(y, dx) == FMul(Num(dx), nansum(y))

\* _integrate_delays: int_fcn on each ray's samples, in order
_integrate_delays(step, refr) ==
    [i \in 1..Len(refr) |-> int_fcn(refr[i], step)]

\* a mutant of _integrateLOS: the wet series is integrated twice
_integrateLOS_wetonly(step, wet, hydro) ==
    <<_integrate_delays(step, wet), _integrate_delays(step, wet)>>

\* _integrateLOS: [wet delays, hydrostatic delays]
_integrateLOS(step, wet, hydro) ==
    <<_integrate_delays(step, wet), _integrate_delays(step, hydro)>>

-----------------------------------------------------------------------------
(* SpecDelay: one call of _common_delay *)

HeightValues == {NaN, Num(0), Num(1)}
LookValues == {Num(-2), Num(0), Num(2), Num(5), NaN, Inf(1)}
N == Len(heights)

InitDelay ==
    /\ \E n \in 1..MaxRays :
          /\ heights \in [1..n -> HeightValues]
          /\ los \in {Zenith} \cup {Explicit(vs) : vs \in [1..n -> LookValues]}
          /\ fault \in {[ray |-> 0, at |-> "none"]}
                 \cup [ray : 1..n, at : {"transform", "interpolate"}]
    /\ stepSize \in 1..2
    /\ cdPc = "ResolveLookVectors"
    /\ look_vecs = <<>> /\ lengths = <<>> /\ start_positions = <<>>
    /\ scaled_look_vecs = <<>> /\ positions_l = <<>> /\ newPts = <<>>
    /\ nBuilt = [wet |-> 0, hydro |-> 0]
    /\ wet_pw = <<>> /\ hydro_pw = <<>> /\ delays = <<>>
    /\ IdleRay /\ IdleExec /\ IdleGrid /\ IdleShapes /\ IdleTropo
    /\ IdleExtents

\* lines 197-199: the Zenith sentinel is replaced by synthesized vectors
ResolveLookVectors ==
    /\ cdPc = "ResolveLookVectors"
    /\ look_vecs' = IF los = Zenith THEN _getZenithLookVecs(heights, ZREF)
                    ELSE los.vecs
    /\ cdPc' = "ComputeRayLengths"
    /\ UNCHANGED <<cdArgs, lengths, start_positions, scaled_look_vecs,
                   positions_l, newPts, nBuilt, wet_pw, hydro_pw, delays>>
    /\ UNCHANGED othersOfDelay

\* lines 213-220: mask, lengths, start positions, unit look vectors
ComputeRayLengths ==
    /\ cdPc = "ComputeRayLengths"
    /\ LET mask == [i \in 1..N |-> IsNaN(heights[i])]
           ls == _get_lengths(look_vecs)
           masked == [i \in 1..N |-> IF mask[i] THEN NaN ELSE ls[i]]
       IN  /\ lengths' = masked
           /\ start_positions' = [i \in 1..N |-> lla2ecef(heights[i])]
           /\ scaled_look_vecs' =
                 [i \in 1..N |-> FDiv(look_vecs[i], masked[i])]
    /\ cdPc' = "SampleRays"
    /\ UNCHANGED <<cdArgs, look_vecs, positions_l, newPts, nBuilt,
                   wet_pw, hydro_pw, delays>>
    /\ UNCHANGED othersOfDelay

\* line 221: positions_l = _get_rays(...)
SampleRays ==
    /\ cdPc = "SampleRays"
    /\ LET rs == _get_rays(lengths, stepSize, start_positions,
                           scaled_look_vecs)
       IN  IF \E i \in 1..N : rs[i].raised # "none"
           THEN /\ cdPc' = "raised"
                /\ UNCHANGED positions_l
           ELSE /\ cdPc' = "Reproject"
                /\ positions_l' = [i \in 1..N |-> rs[i].ray]
    /\ UNCHANGED <<cdArgs, look_vecs, lengths, start_positions,
                   scaled_look_vecs, newPts, nBuilt, wet_pw, hydro_pw, delays>>
    /\ UNCHANGED othersOfDelay

\* lines 230-234: newPts = list(map(f, positions_l)); an exception of
\* pyproj.transform on one ray leaves _common_delay
Reproject ==
    /\ cdPc = "Reproject"
    /\ IF fault.at = "transform"
       THEN /\ cdPc' = "raised"
            /\ UNCHANGED newPts
       ELSE /\ cdPc' = "Breakpoint"
            /\ newPts' = [i \in 1..N |-> _transform(positions_l[i])]
    /\ UNCHANGED <<cdArgs, look_vecs, lengths, start_positions,
                   scaled_look_vecs, positions_l, nBuilt, wet_pw, hydro_pw,
                   delays>>
    /\ UNCHANGED othersOfDelay

\* lines 245-246: pdb.set_trace() stops the run until the debugger is told
\* to continue
Breakpoint ==
    /\ cdPc = "Breakpoint"
    /\ cdPc' = "BuildInterpolators"
    /\ UNCHANGED <<cdArgs, cdLocals>>
    /\ UNCHANGED othersOfDelay

\* getIntFcn(weatherObj, itype): one more Interpolator of the component
\* itype has been constructed
getIntFcn(built, itype) == [built EXCEPT ![itype] = @ + 1]

\* lines 247-248: ifWet and ifHydro are built by getIntFcn, once each
BuildInterpolators ==
    /\ cdPc = "BuildInterpolators"
    /\ nBuilt' = getIntFcn(getIntFcn(nBuilt, "wet"), "hydro")
    /\ cdPc' = "Interpolate"
    /\ UNCHANGED <<cdArgs, look_vecs, lengths, start_positions,
                   scaled_look_vecs, positions_l, newPts, wet_pw, hydro_pw,
                   delays>>
    /\ UNCHANGED othersOfDelay

\* a mutant of Interpolate: interpRayWet and interpRayHydro construct their
\* interpolator anew for each ray
RECURSIVE getIntFcnTimes(_, _, _)
getIntFcnTimes(built, itype, k) ==
    IF k = 0 THEN built
    ELSE getIntFcnTimes(getIntFcn(built, itype), itype, k - 1)

Interpolate_rebuilding ==
    /\ cdPc = "Interpolate"
    /\ cdPc' = "Integrate"
    /\ wet_pw' = [i \in 1..N |-> interpRayWet(newPts[i])]
    /\ hydro_pw' = [i \in 1..N |-> interpRayHydro(newPts[i])]
    /\ nBuilt' = getIntFcnTimes(getIntFcnTimes(nBuilt, "wet", N), "hydro", N)
    /\ UNCHANGED <<cdArgs, look_vecs, lengths, start_positions,
                   scaled_look_vecs, positions_l, newPts, delays>>
    /\ UNCHANGED othersOfDelay

\* lines 261-268: the dask bag maps interpRayWet and interpRayHydro over
\* newPts; an exception of the interpolator on one ray leaves _common_delay
Interpolate ==
    /\ cdPc = "Interpolate"
    /\ IF fault.at = "interpolate"
       THEN /\ cdPc' = "raised"
            /\ UNCHANGED <<wet_pw, hydro_pw>>
       ELSE /\ cdPc' = "Integrate"
            /\ wet_pw' = [i \in 1..N |-> interpRayWet(newPts[i])]
            /\ hydro_pw' = [i \in 1..N |-> interpRayHydro(newPts[i])]
    /\ UNCHANGED <<cdArgs, look_vecs, lengths, start_positions,
                   scaled_look_vecs, positions_l, newPts, nBuilt, delays>>
    /\ UNCHANGED othersOfDelay

\* lines 285-287: delays = _integrateLOS(stepSize, wet_pw, hydro_pw)
Integrate ==
    /\ cdPc = "Integrate"
    /\ delays' = _integrateLOS(stepSize, wet_pw, hydro_pw)
    /\ cdPc' = "Done"
    /\ UNCHANGED <<cdArgs, look_vecs, lengths, start_positions,
                   scaled_look_vecs, positions_l, newPts, nBuilt, wet_pw,
                   hydro_pw>>
    /\ UNCHANGED othersOfDelay

NextDelay ==
    \/ ResolveLookVectors
    \/ ComputeRayLengths
    \/ SampleRays
    \/ Reproject
    \/ Breakpoint
    \/ BuildInterpolators
    \/ Interpolate
    \/ Integrate

SpecDelay == InitDelay /\ [][NextDelay]_vars

-----------------------------------------------------------------------------
(* What the claims about _common_delay speak of *)

\* the sum of g over the finite index set I
RECURSIVE SumOver(_, _)
SumOver(I, g) ==
    IF I = {} THEN 0
    ELSE LET k == CHOOSE x \in I : TRUE
         IN  g[k] + SumOver(I \ {k}, g)

\* ray i has a valid height and a look vector of nonzero finite length
ValidRay(i) ==
    /\ IsFinite(heights[i])
    /\ IsFinite(look_vecs[i])
    /\ look_vecs[i].v # 0

AllInside(i) == \A k \in 1..Len(newPts[i]) : InGrid(newPts[i][k])
SomeOutside(i) == \E k \in 1..Len(newPts[i]) : ~InGrid(newPts[i][k])

wetDelay(i) == delays[1][i]
hydroDelay(i) == delays[2][i]

-----------------------------------------------------------------------------
(* C1 *)

\* C1: every ground point of the batch whose height is NaN gets a NaN wet
\* delay and a NaN hydrostatic delay, for an explicit look vector and for
\* Zenith, whatever the other points of the batch are.
C1_NaNHeightNaNDelay ==
    cdPc = "Done" =>
        \A i \in 1..N :
            IsNaN(heights[i]) => (IsNaN(wetDelay(i)) /\ IsNaN(hydroDelay(i)))

-----------------------------------------------------------------------------
(* C2 *)

-----------------------------------------------------------------------------
(* C7 *)

\* C7: for every ray the integrated delay is 1e-6 * stepSize * (the sum of
\* the samples of that ray that are not NaN): NaN samples are skipped and
\* never make the result NaN, and the wet delay is taken from the wet
\* series alone, the hydrostatic delay from the hydrostatic series alone.
C7_NansumRiemannSum ==
    cdPc = "Done" =>
        /\ Len(delays) = 2
        /\ Len(delays[1]) = N /\ Len(delays[2]) = N
        /\ \A i \in 1..N :
              LET wk == {k \in 1..Len(wet_pw[i]) : ~IsNaN(wet_pw[i][k])}
                  hk == {k \in 1..Len(hydro_pw[i]) : ~IsNaN(hydro_pw[i][k])}
                  w == [k \in wk |-> wet_pw[i][k].v]
                  h == [k \in hk |-> hydro_pw[i][k].v]
              IN  /\ wetDelay(i) = Num(stepSize * SumOver(wk, w))
                  /\ hydroDelay(i) = Num(stepSize * SumOver(hk, h))

\* a ray whose series hold a NaN sample and a finite one, integrated with a
\* step size other than 1
C7_Witness ==
    /\ cdPc = "Done"
    /\ stepSize = 2
    /\ \E i \in 1..N :
          /\ \E k \in 1..Len(wet_pw[i]) : IsNaN(wet_pw[i][k])
          /\ \E k \in 1..Len(hydro_pw[i]) : ~IsNaN(hydro_pw[i][k])
          /\ IsFinite(wetDelay(i)) /\ wetDelay(i).v > 0
          /\ IsFinite(hydroDelay(i)) /\ hydroDelay(i).v # wetDelay(i).v

-----------------------------------------------------------------------------
(* C10 *)

\* C10: when the coordinate transform or the interpolation fails for one
\* ray of a batch, _common_delay still returns delays for every ray: the
\* failing ray's wet and hydrostatic delays are NaN and the delays of the
\* other rays are what they are without the failing ray.
C10_FailureIsolated ==
    (fault.at # "none" /\ cdPc \in {"Done", "raised"}) =>
        /\ cdPc = "Done"
        /\ Len(delays) = 2
        /\ Len(delays[1]) = N /\ Len(delays[2]) = N
        /\ IsNaN(wetDelay(fault.ray)) /\ IsNaN(hydroDelay(fault.ray))
        /\ \A i \in (1..N) \ {fault.ray} :
              /\ wetDelay(i) =
                    int_fcn(interpRayWet(_transform(positions_l[i])), stepSize)
              /\ hydroDelay(i) =
                    int_fcn(interpRayHydro(_transform(positions_l[i])), stepSize)

-----------------------------------------------------------------------------
(* C11 *)

\* the rays of the batch have been, or are being, evaluated
RaysEvaluated == wet_pw # <<>> \/ hydro_pw # <<>>

\* C11: in one call of _common_delay the wet and the hydrostatic
\* interpolator are each constructed exactly once, before any ray is
\* evaluated, and never again: no step constructs one after the
\* construction step, whatever the number of rays.
C11_InterpolatorsBuiltOnce ==
    /\ nBuilt.wet \in {0, 1} /\ nBuilt.hydro \in {0, 1}
    /\ cdPc \in {"Interpolate", "Integrate", "Done"} =>
          nBuilt = [wet |-> 1, hydro |-> 1]
    /\ RaysEvaluated => nBuilt = [wet |-> 1, hydro |-> 1]
    /\ cdPc \in {"ResolveLookVectors", "ComputeRayLengths", "SampleRays",
                 "Reproject", "Breakpoint", "BuildInterpolators"} =>
          (nBuilt = [wet |-> 0, hydro |-> 0] /\ ~RaysEvaluated)

\* a batch of two rays has been evaluated and integrated with one
\* interpolator per component
C11_Witness ==
    /\ cdPc = "Done"
    /\ N = 2
    /\ Len(wet_pw) = 2 /\ Len(hydro_pw) = 2
    /\ nBuilt = [wet |-> 1, hydro |-> 1]

-----------------------------------------------------------------------------
(* C14 *)

\* the run stands at the debugger's prompt of pdb.set_trace(): it goes on
\* only when someone outside tells the debugger to continue
WaitsForOutsideInput == cdPc = "Breakpoint"

\* C14: every run of _common_delay passes through ResolveLookVectors,
\* ComputeRayLengths, SampleRays, Reproject, Interpolate, Integrate and
\* Done in this order and, for every finite batch, reaches Done without
\* waiting for outside input: no state of a run waits for outside input.
C14_NeverWaitsForOutsideInput == ~WaitsForOutsideInput

-----------------------------------------------------------------------------
(* C15 *)

\* the length step of _common_delay is over
LengthsComputed ==
    cdPc \in {"SampleRays", "Reproject", "Breakpoint", "BuildInterpolators",
              "Interpolate", "Integrate", "Done", "raised"}

\* C15: after the length step of _common_delay, a ground point with a NaN
\* height has the ray length NaN; any other ground point has the Euclidean
\* norm of its look vector as ray length when that norm is finite and 0
\* when it is not, so that its length is neither NaN nor infinite.
C15_LengthsAfterLengthStep ==
    LengthsComputed =>
        /\ Len(lengths) = N
        /\ \A i \in 1..N :
              /\ IsNaN(heights[i]) => IsNaN(lengths[i])
              /\ (~IsNaN(heights[i]) /\ IsFinite(norm(look_vecs[i]))) =>
                    lengths[i] = norm(look_vecs[i])
              /\ (~IsNaN(heights[i]) /\ ~IsFinite(norm(look_vecs[i]))) =>
                    lengths[i] = Num(0)
              /\ ~IsNaN(heights[i]) => IsFinite(lengths[i])

\* a batch with a NaN height, whose length is NaN, and a valid height under
\* a look vector of non-finite norm, whose length is 0
C15_Witness ==
    /\ cdPc = "SampleRays"
    /\ \E i \in 1..N : IsNaN(heights[i]) /\ IsNaN(lengths[i])
    /\ \E j \in 1..N :
          /\ IsFinite(heights[j])
          /\ ~IsFinite(norm(look_vecs[j]))
          /\ lengths[j] = Num(0)

-----------------------------------------------------------------------------
(* SpecExec: a per-ray function mapped over a list of rays, in each
   execution mode of the module *)

\* the function mapped: interpRayWet
RayFn(ray) == interpRayWet(ray)

ExRays == {<<>>, <<Num(0)>>, <<Num(1), Num(2)>>, <<Num(GridTop + 1)>>}

\* line 265: Npart = min(len(newPts)//100 + 1, 400)
Npart(n) ==
    LET a == (n \div PartitionEvery) + 1
    IN  IF a < MaxPartitions THEN a ELSE MaxPartitions

\* db.from_sequence(seq, npartitions): consecutive chunks of
\* ceil(len / npartitions) elements
PartitionSize(n) == (n + Npart(n) - 1) \div Npart(n)
NumPartitions(n) ==
    IF n = 0 THEN 0 ELSE (n + PartitionSize(n) - 1) \div PartitionSize(n)
PartitionIndices(n, p) ==
    {i \in 1..n : (i - 1) \div PartitionSize(n) = p - 1}

\* the index of the first ray of partition p
PartitionStart(n, p) == ((p - 1) * PartitionSize(n)) + 1

\* the rays of partition p, in their order
Partition(seq, p) ==
    LET n == Len(seq)
        first == PartitionStart(n, p)
        count == Cardinality(PartitionIndices(n, p))
    IN  [k \in 1..count |-> seq[first + k - 1]]

\* the partitions' results one after the other, in partition order
RECURSIVE Concat(_)
Concat(parts) ==
    IF parts = <<>> THEN <<>> ELSE parts[1] \o Concat(Tail(parts))

InitExec ==
    /\ exMode \in {"sequential", "dask", "parmap"}
    /\ \E n \in 1..MaxItems : exItems \in [1..n -> ExRays]
    /\ exPc = "start"
    /\ exParts = <<>>
    /\ exAnswers = <<>>
    /\ IdleRay /\ IdleDelay /\ IdleGrid /\ IdleShapes /\ IdleTropo
    /\ IdleExtents

\* lines 127-132, 234, 272-275, 311-314: the loops and map() of the module
\* take the next element and append its result
SequentialStep ==
    /\ exMode = "sequential"
    /\ exPc \in {"start", "loop"}
    /\ IF Len(exAnswers) < Len(exItems)
       THEN /\ exAnswers' = Append(exAnswers, RayFn(exItems[Len(exAnswers) + 1]))
            /\ exPc' = "loop"
       ELSE /\ exPc' = "done"
            /\ UNCHANGED exAnswers
    /\ UNCHANGED <<exMode, exItems, exParts>>
    /\ UNCHANGED othersOfExec

\* line 266: the bag is cut into its partitions
DaskFromSequence ==
    /\ exMode = "dask"
    /\ exPc = "start"
    /\ exParts' = [p \in 1..NumPartitions(Len(exItems)) |->
                      [done |-> FALSE, out |-> <<>>]]
    /\ exPc' = "compute"
    /\ UNCHANGED <<exMode, exItems, exAnswers>>
    /\ UNCHANGED othersOfExec

\* line 267: a worker maps the function over one partition; the partitions
\* are taken in any order
DaskMapPartition ==
    /\ exMode = "dask"
    /\ exPc = "compute"
    /\ \E p \in 1..Len(exParts) :
          /\ ~exParts[p].done
          /\ exParts' = [exParts EXCEPT ![p] =
                [done |-> TRUE,
                 out |-> LET part == Partition(exItems, p)
                         IN  [k \in 1..Len(part) |-> RayFn(part[k])]]]
    /\ UNCHANGED <<exMode, exItems, exPc, exAnswers>>
    /\ UNCHANGED othersOfExec

\* line 267: compute() returns the partitions' results in partition order
DaskCompute ==
    /\ exMode = "dask"
    /\ exPc = "compute"
    /\ \A p \in 1..Len(exParts) : exParts[p].done
    /\ exAnswers' = Concat([p \in 1..Len(exParts) |-> exParts[p].out])
    /\ exPc' = "done"
    /\ UNCHANGED <<exMode, exItems, exParts>>
    /\ UNCHANGED othersOfExec

\* line 367: _parmap starts with q = queue.Queue(); the module does not
\* import queue (line 20 is a comment), so the call ends in a NameError
\* before a job is queued or a thread started
Parmap ==
    /\ exMode = "parmap"
    /\ exPc = "start"
    /\ exPc' = "NameError"
    /\ UNCHANGED <<exMode, exItems, exParts, exAnswers>>
    /\ UNCHANGED othersOfExec

NextExec ==
    \/ SequentialStep
    \/ DaskFromSequence
    \/ DaskMapPartition
    \/ DaskCompute
    \/ Parmap

SpecExec == InitExec /\ [][NextExec]_vars

-----------------------------------------------------------------------------
(* C3 *)

\* C3: in every execution mode (the sequential loops, the partitioned dask
\* bag, the thread pool of _parmap) the map ends with a result list whose
\* i-th element is the per-ray function applied to the i-th ray: no result
\* is lost, duplicated or placed at another index.
C3_ResultsInInputOrder ==
    (exPc \in {"done", "NameError"}) =>
        /\ exPc = "done"
        /\ Len(exAnswers) = Len(exItems)
        /\ \A i \in 1..Len(exItems) : exAnswers[i] = RayFn(exItems[i])

\* the same for the two modes that _common_delay uses, where it holds
C3_OrderKeptBySequentialAndDask ==
    (exPc = "done") =>
        /\ Len(exAnswers) = Len(exItems)
        /\ \A i \in 1..Len(exItems) : exAnswers[i] = RayFn(exItems[i])

-----------------------------------------------------------------------------
(* SpecGrid: delay_from_grid.  An array is known by its shape, a sequence
   of extents; raytrace keeps its default, True. *)

\* the number of elements of an array of that shape
RECURSIVE Size(_)
Size(shape) == IF shape = <<>> THEN 1 ELSE shape[1] * Size(Tail(shape))

\* a.reshape(-1, 3)
ReshapeRows3(shape) == <<Size(shape) \div 3, 3>>

\* the shape of a Python list of n floats
ListShape(n) == <<n>>

\* the shapes of the two lists _common_delay returns: one delay per row
\* of llas
CommonDelayShapes(rows) == <<ListShape(rows), ListShape(rows)>>

\* np.stack((a, b)) of two arrays of one shape
Stack2(shape) == <<2>> \o shape

\* hydro, wet = arr: the shape of each of the two parts
UnpackShape(shape) == Tail(shape)

\* a.reshape(new): the sizes must agree
Reshape(shape, new) == IF Size(shape) = Size(new) THEN new ELSE <<"ValueError">>

\* delay_from_grid(weather, llas, los): lines 405-432, on shapes
delay_from_grid(shape, look) ==
    LET real_shape == shape
        llas == ReshapeRows3(shape \o <<3>>)
        d == CommonDelayShapes(llas[1])
        wet == d[1]
        hydro == d[2]
    IN  IF look # "Zenith"
        THEN LET both == Reshape(Stack2(hydro), <<2>> \o real_shape)
             IN  [hydro |-> UnpackShape(both), wet |-> UnpackShape(both)]
        ELSE [hydro |-> hydro, wet |-> wet]

Shapes == UNION {[1..n -> 1..MaxDim] : n \in 0..MaxAxes}

InitGrid ==
    /\ gShape \in Shapes
    /\ gLos \in {"Zenith", "Explicit"}
    /\ gPc = "call"
    /\ gHydro = <<>> /\ gWet = <<>>
    /\ IdleRay /\ IdleDelay /\ IdleExec /\ IdleShapes /\ IdleTropo
    /\ IdleExtents

DelayFromGrid ==
    /\ gPc = "call"
    /\ LET r == delay_from_grid(gShape, gLos)
       IN  /\ gHydro' = r.hydro
           /\ gWet' = r.wet
    /\ gPc' = "returned"
    /\ UNCHANGED <<gShape, gLos>>
    /\ UNCHANGED othersOfGrid

NextGrid == DelayFromGrid

SpecGrid == InitGrid /\ [][NextGrid]_vars

-----------------------------------------------------------------------------
(* C4 *)

\* C4: for every batch llas of shape S + (3,), delay_from_grid returns a
\* hydrostatic and a wet result of shape S, for an explicit look-vector
\* array and for Zenith alike.
C4_OutputShapeIsInputShape ==
    gPc = "returned" => (gHydro = gShape /\ gWet = gShape)

\* the same for an explicit look-vector array alone, where it holds
C4_ShapeRestoredForExplicit ==
    (gPc = "returned" /\ gLos = "Explicit") =>
        (gHydro = gShape /\ gWet = gShape)

-----------------------------------------------------------------------------
(* SpecShapes: the shape checks of _tropo_delay_with_values and of
   delay_from_files.  sDone lists, in order, what the call has computed. *)

InputShapes == {<<1>>, <<2>>, <<1, 2>>}

\* lines 478-484 of _tropo_delay_with_values, for lats, lons, hts and the
\* look vector after lines 472-475 (Zenith, or an array of shape lead + (3,)):
\* test2 is bound only in the except branch, which an array never takes,
\* so reading it raises UnboundLocalError once test1 holds
ShapeTest(lats, lons, hts, look) ==
    LET test1 == (hts = lats) /\ (lats = lons)
    IN  IF look.given
        THEN (IF ~test1 THEN "ValueError" ELSE "UnboundLocalError")
        ELSE (IF ~test1 THEN "ValueError" ELSE "pass")

\* line 453 of delay_from_files: lats, lons and hts only
FilesShapeTest(lats, lons, hts) ==
    IF ~((lats = lons) /\ (lons = hts)) THEN "ValueError" ELSE "pass"

InitShapes ==
    /\ sEntry \in {"_tropo_delay_with_values", "delay_from_files"}
    /\ sLats \in InputShapes
    /\ sLons \in InputShapes
    /\ sHts \in InputShapes
    /\ sLos \in {[given |-> FALSE, lead |-> <<>>]}
                \cup {[given |-> TRUE, lead |-> l] : l \in InputShapes}
    /\ sPc = "los"
    /\ sDone = <<>>
    /\ IdleRay /\ IdleDelay /\ IdleExec /\ IdleGrid /\ IdleTropo
    /\ IdleExtents

\* lines 472-475: los is None gives Zenith; otherwise losreader.infer_los
\* computes the look vectors
ValuesResolveLos ==
    /\ sEntry = "_tropo_delay_with_values"
    /\ sPc = "los"
    /\ sDone' = IF sLos.given THEN Append(sDone, "look_vectors") ELSE sDone
    /\ sPc' = "check"
    /\ UNCHANGED <<sEntry, sLats, sLons, sHts, sLos>>
    /\ UNCHANGED othersOfShapes

\* lines 477-488
ValuesShapeCheck ==
    /\ sEntry = "_tropo_delay_with_values"
    /\ sPc = "check"
    /\ LET t == ShapeTest(sLats, sLons, sHts, sLos)
       IN  sPc' = IF t = "pass" THEN "compute" ELSE t
    /\ UNCHANGED <<sEntry, sLats, sLons, sHts, sLos, sDone>>
    /\ UNCHANGED othersOfShapes

\* lines 494-497
ValuesDelayFromGrid ==
    /\ sEntry = "_tropo_delay_with_values"
    /\ sPc = "compute"
    /\ sDone' = Append(sDone, "delay_from_grid")
    /\ sPc' = "returned"
    /\ UNCHANGED <<sEntry, sLats, sLons, sHts, sLos>>
    /\ UNCHANGED othersOfShapes

\* lines 438-448: the rasters are read, and losreader.los_to_lv computes
\* the look vectors when los is given
FilesOpen ==
    /\ sEntry = "delay_from_files"
    /\ sPc = "los"
    /\ sDone' = IF sLos.given THEN Append(sDone, "look_vectors") ELSE sDone
    /\ sPc' = "check"
    /\ UNCHANGED <<sEntry, sLats, sLons, sHts, sLos>>
    /\ UNCHANGED othersOfShapes

\* lines 453-456
FilesShapeCheck ==
    /\ sEntry = "delay_from_files"
    /\ sPc = "check"
    /\ LET t == FilesShapeTest(sLats, sLons, sHts)
       IN  sPc' = IF t = "pass" THEN "compute" ELSE t
    /\ UNCHANGED <<sEntry, sLats, sLons, sHts, sLos, sDone>>
    /\ UNCHANGED othersOfShapes

\* lines 458-462
FilesDelayFromGrid ==
    /\ sEntry = "delay_from_files"
    /\ sPc = "compute"
    /\ sDone' = Append(sDone, "delay_from_grid")
    /\ sPc' = "returned"
    /\ UNCHANGED <<sEntry, sLats, sLons, sHts, sLos>>
    /\ UNCHANGED othersOfShapes

NextShapes ==
    \/ ValuesResolveLos
    \/ ValuesShapeCheck
    \/ ValuesDelayFromGrid
    \/ FilesOpen
    \/ FilesShapeCheck
    \/ FilesDelayFromGrid

SpecShapes == InitShapes /\ [][NextShapes]_vars

-----------------------------------------------------------------------------
(* C8 *)

\* the shapes of lat, lon, height and look vector disagree
ShapesDisagree ==
    \/ ~((sLats = sLons) /\ (sLons = sHts))
    \/ (sLos.given /\ sLos.lead # sHts)

\* C8: whenever the shapes of the lat, lon, height and look-vector arrays
\* given to _tropo_delay_with_values or delay_from_files disagree, the call
\* ends in a ValueError, raised before any ray, look vector or delay is
\* computed.
C8_MismatchIsValueErrorBeforeWork ==
    (ShapesDisagree /\ sPc \notin {"idle", "los", "check"}) =>
        (sPc = "ValueError" /\ sDone = <<>>)

-----------------------------------------------------------------------------
(* C16 *)

\* lats, lons and heights have one shape, and the look vector is absent
\* (Zenith) or has that shape before its last axis
StructurallyValid ==
    /\ sLats = sLons /\ sLons = sHts
    /\ sLos.given => sLos.lead = sHts

\* how many times the call has done the step named what
TimesDone(what) ==
    Cardinality({k \in 1..Len(sDone) : sDone[k] = what})

\* C16: _tropo_delay_with_values accepts every structurally valid input:
\* the shape check raises no error and delay_from_grid is called exactly
\* once with those inputs.
C16_ValidInputAccepted ==
    (/\ sEntry = "_tropo_delay_with_values"
     /\ StructurallyValid
     /\ sPc \notin {"los", "check", "compute"}) =>
        (sPc = "returned" /\ TimesDone("delay_from_grid") = 1)

-----------------------------------------------------------------------------
(* SpecTropo: tropo_delay.  tdEffects lists, in order, what the call has
   read, fetched, loaded, computed and created.  The time of the
   acquisition is given. *)

\* line 549
allowedWMTypes == {"ERA-I", "ERA-5", "MERRA-2", "WRF", "HRRR", "pickle"}

\* a mutant of WeatherModelAllowed: the name is not checked
WeatherModelAllowed_any(name) == TRUE

\* line 550
WeatherModelAllowed(name) == name \in allowedWMTypes

\* the shape of the grids weather.getLL() returns
ModelGridShape == <<2>>

InitTropo ==
    /\ tdArgs \in [name : allowedWMTypes \cup {"NCMR", "era5"},
                   type : {"wrf", "pickle", "model"},
                   files : BOOLEAN,
                   lat : BOOLEAN,
                   los : BOOLEAN,
                   exists : BOOLEAN,
                   fetchFails : BOOLEAN,
                   download_only : BOOLEAN,
                   height_type : {"dem", "lvs", "download"},
                   demShape : {<<1>>, <<2>>},
                   outformat : {"ENVI", "hdf5"}]
    /\ tdPc = "check_model"
    /\ tdEffects = <<>>
    /\ IdleRay /\ IdleDelay /\ IdleExec /\ IdleGrid /\ IdleShapes
    /\ IdleExtents

\* lines 539-551: the output directory, the weather dictionary, and the
\* check of the weather model's name
TropoCheckModel ==
    /\ tdPc = "check_model"
    /\ tdPc' = IF WeatherModelAllowed(tdArgs.name) THEN "lat_lon"
               ELSE "RuntimeError"
    /\ UNCHANGED <<tdArgs, tdEffects>>
    /\ UNCHANGED othersOfTropo

\* lines 553-611: the names of the output files; the lat and lon rasters
\* are read when lat is given
TropoLatLon ==
    /\ tdPc = "lat_lon"
    /\ tdEffects' = IF tdArgs.lat THEN Append(tdEffects, "raster_read")
                    ELSE tdEffects
    /\ tdPc' = "weather"
    /\ UNCHANGED tdArgs
    /\ UNCHANGED othersOfTropo

\* lines 614-625: a WRF or a pickled weather model is loaded
TropoLoadLocal ==
    /\ tdPc = "weather"
    /\ tdArgs.type \in {"wrf", "pickle"}
    /\ tdEffects' = Append(tdEffects, "weather_load")
    /\ tdPc' = "pickle"
    /\ UNCHANGED tdArgs
    /\ UNCHANGED othersOfTropo

\* lines 652-663: the weather model is read from the files given
TropoLoadFiles ==
    /\ tdPc = "weather"
    /\ tdArgs.type = "model"
    /\ tdArgs.files
    /\ tdEffects' = Append(tdEffects, "weather_load")
    /\ tdPc' = "pickle"
    /\ UNCHANGED tdArgs
    /\ UNCHANGED othersOfTropo

\* lines 628-643: no files given; the weather model is fetched unless its
\* file exists, and a failed fetch prints and calls sys.exit(0)
TropoFetch ==
    /\ tdPc = "weather"
    /\ tdArgs.type = "model"
    /\ ~tdArgs.files
    /\ IF ~tdArgs.lat
       THEN /\ tdPc' = "ValueError"
            /\ UNCHANGED tdEffects
       ELSE IF tdArgs.exists
       THEN /\ tdPc' = "fetched"
            /\ UNCHANGED tdEffects
       ELSE /\ tdEffects' = Append(tdEffects, "weather_fetch")
            /\ tdPc' = IF tdArgs.fetchFails THEN "SystemExit(0)" ELSE "fetched"
    /\ UNCHANGED tdArgs
    /\ UNCHANGED othersOfTropo

\* lines 644-651: download_only returns (None, None); otherwise the
\* fetched file is loaded
TropoLoadFetched ==
    /\ tdPc = "fetched"
    /\ IF tdArgs.download_only
       THEN /\ tdPc' = "returned (None, None)"
            /\ UNCHANGED tdEffects
       ELSE /\ tdEffects' = Append(tdEffects, "weather_load")
            /\ tdPc' = "pickle"
    /\ UNCHANGED tdArgs
    /\ UNCHANGED othersOfTropo

\* lines 665-706: the weather model is pickled to pickledHRRR.pik unless it
\* came from a pickle; the heights are read from the DEM or downloaded
TropoHeights ==
    /\ tdPc = "pickle"
    /\ tdEffects' =
          (IF tdArgs.type # "pickle"
           THEN Append(tdEffects, "file_create") ELSE tdEffects)
          \o (IF tdArgs.height_type = "dem" THEN <<"raster_read">>
              ELSE IF tdArgs.height_type = "download" THEN <<"dem_download">>
              ELSE <<>>)
    /\ tdPc' = "delay"
    /\ UNCHANGED tdArgs
    /\ UNCHANGED othersOfTropo

\* lines 710-719, 748-749: _tropo_delay_with_values on the model's lats and
\* lons and the heights (broadcast to their shape for 'lvs')
TropoDelay ==
    /\ tdPc = "delay"
    /\ LET hts == IF tdArgs.height_type = "lvs" THEN ModelGridShape
                  ELSE tdArgs.demShape
           look == [given |-> tdArgs.los, lead |-> hts]
           t == ShapeTest(ModelGridShape, ModelGridShape, hts, look)
       IN  IF t = "pass"
           THEN /\ tdEffects' = IF tdArgs.los
                                THEN tdEffects \o <<"look_vectors", "delay">>
                                ELSE Append(tdEffects, "delay")
                /\ tdPc' = "write"
           ELSE /\ tdEffects' = IF tdArgs.los
                                THEN Append(tdEffects, "look_vectors")
                                ELSE tdEffects
                /\ tdPc' = t
    /\ UNCHANGED tdArgs
    /\ UNCHANGED othersOfTropo

\* lines 721-772: hdf5 is refused; otherwise the two output files are
\* created and their names returned
TropoWrite ==
    /\ tdPc = "write"
    /\ IF tdArgs.outformat = "hdf5"
       THEN /\ tdPc' = "TypeError"
            /\ UNCHANGED tdEffects
       ELSE /\ tdEffects' = tdEffects \o <<"file_create", "file_create">>
            /\ tdPc' = "returned (hydro_file_name, wet_file_name)"
    /\ UNCHANGED tdArgs
    /\ UNCHANGED othersOfTropo

NextTropo ==
    \/ TropoCheckModel
    \/ TropoLatLon
    \/ TropoLoadLocal
    \/ TropoLoadFiles
    \/ TropoFetch
    \/ TropoLoadFetched
    \/ TropoHeights
    \/ TropoDelay
    \/ TropoWrite

SpecTropo == InitTropo /\ [][NextTropo]_vars

-----------------------------------------------------------------------------
(* C9 *)

\* C9: tropo_delay called with a weather-model name outside the allowed
\* list raises an error before any weather-model fetch or load, any raster
\* read, any delay computation and any creation of an output file.
C9_UnknownModelRaisesFirst ==
    (tdPc \notin {"idle", "check_model"} /\ tdArgs.name \notin allowedWMTypes) =>
        (tdPc = "RuntimeError" /\ tdEffects = <<>>)

\* a name outside the list, with everything else in place for a full run
C9_Witness ==
    /\ tdPc = "RuntimeError"
    /\ tdArgs.name = "NCMR"
    /\ tdArgs.type = "model" /\ tdArgs.lat /\ ~tdArgs.files /\ ~tdArgs.exists
    /\ tdEffects = <<>>

-----------------------------------------------------------------------------
(* C12 *)

\* the fetch of the weather model has been tried and has failed
FetchFailed ==
    /\ tdArgs.fetchFails
    /\ Len(tdEffects) > 0
    /\ tdEffects[Len(tdEffects)] = "weather_fetch"
    /\ tdPc # "weather"

\* the ways tropo_delay ends that tell its caller of a failure: an exception
\* raised to the caller.  A return, and an exit with the status 0 of a
\* successful run, are not among them.
ErrorOutcomes == {"RuntimeError", "ValueError", "TypeError", "OSError"}

\* C12: when the weather-model fetch fails inside tropo_delay, the call
\* ends with an error outcome the caller can observe, not with a normal or
\* successful completion and not with an empty result.
C12_FetchFailureIsError ==
    FetchFailed => tdPc \in ErrorOutcomes

-----------------------------------------------------------------------------
(* SpecExtents: gdal_extents (src/tools/RAiDER/ioFcns.py).  eFile is the
   file gdal.Open is given: whether a .vrt stands beside the name, whether
   GDAL can open it, whether it carries a projection and a geotransform,
   the six coefficients of that geotransform, and the raster's size.
   Coordinates are integers. *)

\* the geotransforms a georeferenced file may carry: north-up, and rotated
GeoTransforms == {<<17, 1, 0, 18, 0, -1>>, <<0, 2, 1, 5, 1, -2>>}

\* ds.GetProjection(): the projection's text, empty when the file has none
GetProjection(ds) == IF ds.hasProj THEN "WKT" ELSE ""

\* ds.GetGeoTransform(): the six coefficients; for a file without a
\* geotransform GDAL hands out the identity transform, not None
GetGeoTransform(ds) ==
    IF ds.hasGt THEN ds.gt ELSE <<0, 1, 0, 0, 0, 1>>

\* Python's truth value of a string or of a tuple, negated
NotStr(x) == x = ""
NotTuple(x) == x = <<>>

\* line 37: the list gdal_extents returns
ExtentList(gt, xSize, ySize) ==
    << gt[1],
       gt[1] + ((xSize - 1) * gt[2]) + ((ySize - 1) * gt[3]),
       gt[4],
       gt[4] + ((xSize - 1) * gt[5]) + ((ySize - 1) * gt[6]) >>

InitExtents ==
    /\ eFile \in [vrt : BOOLEAN, opens : BOOLEAN, hasProj : BOOLEAN,
                   hasGt : BOOLEAN, gt : GeoTransforms,
                   xSize : 1..MaxSize, ySize : 1..MaxSize]
    /\ ePc = "open"
    /\ eOut = <<>>
    /\ IdleRay /\ IdleDelay /\ IdleExec /\ IdleGrid /\ IdleShapes
    /\ IdleTropo

\* lines 22-27: the .vrt beside the name is preferred; gdal.Open raises
\* (gdal.UseExceptions(), line 18) and the exception becomes an OSError
ExtentsOpen ==
    /\ ePc = "open"
    /\ ePc' = IF eFile.opens THEN "check" ELSE "OSError"
    /\ UNCHANGED <<eFile, eOut>>
    /\ UNCHANGED othersOfExtents

\* lines 29-33: if not proj or not gt: raise AttributeError
ExtentsCheck ==
    /\ ePc = "check"
    /\ LET proj == GetProjection(eFile)
           gt == GetGeoTransform(eFile)
       IN  ePc' = IF NotStr(proj) \/ NotTuple(gt) THEN "AttributeError"
                  ELSE "extent"
    /\ UNCHANGED <<eFile, eOut>>
    /\ UNCHANGED othersOfExtents

\* lines 35-37: the extent from the geotransform and the raster's size
ExtentsReturn ==
    /\ ePc = "extent"
    /\ eOut' = ExtentList(GetGeoTransform(eFile), eFile.xSize, eFile.ySize)
    /\ ePc' = "returned"
    /\ UNCHANGED eFile
    /\ UNCHANGED othersOfExtents

NextExtents ==
    \/ ExtentsOpen
    \/ ExtentsCheck
    \/ ExtentsReturn

SpecExtents == InitExtents /\ [][NextExtents]_vars

-----------------------------------------------------------------------------
(* C13 *)

ExtentsEnded == ePc \in {"OSError", "AttributeError", "returned"}

\* C13: gdal_extents raises OSError for a file that cannot be opened,
\* raises AttributeError for every file that can be opened but carries no
\* projection or no geotransform, and returns an extent list only for a
\* georeferenced file.
C13_ExtentOnlyWhenGeoreferenced ==
    ExtentsEnded =>
        /\ ~eFile.opens => ePc = "OSError"
        /\ (eFile.opens /\ (~eFile.hasProj \/ ~eFile.hasGt)) =>
              ePc = "AttributeError"
        /\ ePc = "returned" =>
              (eFile.opens /\ eFile.hasProj /\ eFile.hasGt)

-----------------------------------------------------------------------------
(* SpecRay: _compute_ray called on its own *)

RayLengths == {Num(n) : n \in (0 - MaxLen)..MaxLen} \cup {NaN, Inf(1), Inf(-1)}
RayStarts == {Num(0), Num(5), NaN}
RayDirections == {Num(1), Num(-1), NaN}

InitRay ==
    /\ rL \in RayLengths
    /\ rS \in RayStarts
    /\ rV \in RayDirections
    /\ rStep \in 1..MaxStep
    /\ rPc = "call"
    /\ rRay = <<>>
    /\ IdleDelay /\ IdleExec /\ IdleGrid /\ IdleShapes /\ IdleTropo
    /\ IdleExtents

ComputeRay ==
    /\ rPc = "call"
    /\ LET r == _compute_ray(rL, rS, rV, rStep)
       IN  /\ rRay' = r.ray
           /\ rPc' = IF r.raised = "none" THEN "returned" ELSE "raised"
    /\ UNCHANGED <<rL, rS, rV, rStep>>
    /\ UNCHANGED othersOfRay

NextRay == ComputeRay

SpecRay == InitRay /\ [][NextRay]_vars

-----------------------------------------------------------------------------
(* C5 *)

\* C5: for a finite length L > 0 and a step size s > 0, _compute_ray
\* returns exactly the positions start + k*s*direction for the k = 0, 1, ...
\* with k*s < L, in increasing k, and never the endpoint at distance L.
C5_SamplesBelowLength ==
    (rPc = "returned" /\ IsFinite(rL) /\ rL.v > 0) =>
        LET ks == {k \in 0..rL.v : k * rStep < rL.v}
        IN  /\ Len(rRay) = Cardinality(ks)
            /\ \A k \in ks :
                  /\ rRay[k + 1] = FAdd(rS, FMul(Num(k * rStep), rV))
                  /\ (IsFinite(rS) /\ IsFinite(rV)) =>
                        rRay[k + 1] = Num(rS.v + k * rStep * rV.v)
            /\ \A i \in 1..Len(rRay) :
                  (IsFinite(rS) /\ IsFinite(rV)) =>
                        Abs(rRay[i].v - rS.v) < rL.v

\* a ray of length 5 sampled every 2 from position 5 downwards: 5, 3, 1, and
\* not the endpoint 0
C5_Witness ==
    /\ rPc = "returned"
    /\ rL = Num(5) /\ rStep = 2 /\ rS = Num(5) /\ rV = Num(-1)
    /\ rRay = <<Num(5), Num(3), Num(1)>>

-----------------------------------------------------------------------------
(* C6 *)

\* C6: when the length given to _compute_ray is NaN, infinite, zero or
\* negative, it returns an empty sequence of positions and raises no error.
C6_InvalidLengthEmptyRay ==
    (rPc # "call" /\ (~IsFinite(rL) \/ rL.v <= 0)) =>
        (rPc = "returned" /\ rRay = <<>>)

C6_Witness ==
    /\ rPc = "returned"
    /\ rL = NaN
    /\ rRay = <<>>

=============================================================================
